---------------------------- MODULE Spec2Model ----------------------------
(***************************************************************************)
(* Doubling Speed Tracker (src/src/App.tsx): the App component's metric    *)
(* store, its event handlers, its localStorage effects and the             *)
(* doubling-rate estimator.                                                *)
(*                                                                         *)
(* Modelling conventions                                                   *)
(*  - A JavaScript value that may be a number, NaN or null is a record     *)
(*    [tag, val]; Num(n), JsNaN, JsNull, Str(d) build them.                *)
(*  - A calendar-day string "YYYY-MM-DD" is its day number, the number of  *)
(*    days since 2024-01-01 (so "2024-02-01" is 31 and "2024-03-03" is     *)
(*    62); new Date(s).getTime() is then DayMinutes times the day number.           *)
(*  - The text fields newMetricName, newBaseValue and newValue are written *)
(*    only by their onChange handlers and read only by the click handler   *)
(*    that follows; the click handlers take what is in the field as a      *)
(*    parameter of the same name.                                          *)
(*  - setMetrics in an event handler and the re-render it causes are one   *)
(*    step: React runs no effect and no other handler in between.  The     *)
(*    setMetrics of the load effect is different: the other effects of the *)
(*    same commit still run with the metrics of the first render, so the   *)
(*    queued update is kept in `loaded` until Rerender applies it.         *)
(***************************************************************************)
EXTENDS Integers, Sequences, FiniteSets, TLC

\* ---------------------------------------------------------------- bounds
\* Number of user operations (selections, clicks, page reloads) in a run.
MaxOps == 4
\* new Date() gives a day in 1..MaxDay.
MaxDay == 2
\* The quota of localStorage, in records (metrics and samples) of the text:
\* setItem throws QuotaExceededError for a longer one.
StorageQuota == 5
\* Longest sample sequence handed to the estimator harness.
MaxEstLen == 3

\* ------------------------------------------------------------ JS values
Num(n) == [tag |-> "number", val |-> n]
JsNaN == [tag |-> "NaN", val |-> 0]
JsNull == [tag |-> "null", val |-> 0]
Str(d) == [tag |-> "string", val |-> d]

\* `!v` of JavaScript for the values selectedMetric can hold.
Falsy(v) == v.tag \in {"null", "NaN"} \/ (v.tag = "number" /\ v.val = 0)

Days == 1..MaxDay
\* What the user can have typed in the name field.
TypedNames == {"", " ", "A"}
\* What newBaseValue can hold: the initial 100, or parseInt of the field
\* (NaN when the field has been cleared).
TypedBaseValues == {Num(100), JsNaN}
\* What the value field can hold.
TypedValues == {"", "100", "200"}

\* A trim that strips nothing.
NoTrim(s) == s

\* String.prototype.trim on the typed names.
Trim(s) == CASE s = " " -> ""
             [] OTHER -> s

\* parseFloat on the typed values that pass the newValue === "" guard.
ParseFloat(s) == CASE s = "100" -> 100
                   [] s = "200" -> 200

\* useState's initial metrics.
DefaultMetrics ==
  << [id |-> 1, name |-> "Followers", values |-> <<>>,
      baseValue |-> Num(100), lastUpdated |-> JsNull],
     [id |-> 2, name |-> "Revenue", values |-> <<>>,
      baseValue |-> Num(1000), lastUpdated |-> JsNull],
     [id |-> 3, name |-> "Customers", values |-> <<>>,
      baseValue |-> Num(10), lastUpdated |-> JsNull] >>

VARIABLES
  metrics,         \* useState metrics, as the current render sees it
  selectedMetric,  \* useState selectedMetric
  storage,         \* localStorage["doublingMetrics"]: [present, text]
  loaded,          \* the setMetrics queued by the load effect: [queued, value]
  pc,              \* "load", "save", "render": the effect or render due; "idle"
  lastSave,        \* outcome of the last save effect: "none", "ok", "failed"
  raised,          \* what the last handler raised to its caller: "none"
  everIds,         \* history: every id a metric of the store has had
  ops,             \* history: the number of user operations so far
  estValues,       \* estimator harness: the argument of calculateDoublingRate
  estTz,           \* estimator harness: the local time zone, hours from UTC
  estResult        \* estimator harness: the value returned

vars == << metrics, selectedMetric, storage, loaded, pc, lastSave,
           raised, everIds, ops, estValues, estTz, estResult >>

storeVars == << metrics, selectedMetric, storage, loaded, pc, lastSave,
                raised, everIds, ops >>

estVars == << estValues, estTz, estResult >>

\* ------------------------------------------------------------- helpers
Ids(ms) == {ms[i].id : i \in DOMAIN ms}

MaxOf(S) == CHOOSE m \in S : \A x \in S : x <= m

\* An id taken from the number of metrics instead of the largest id.
NextIdByLength(ms) == Len(ms) + 1

\* Math.max(0, ...metrics.map((m) => m.id)) + 1
NextId(ms) == MaxOf({0} \cup Ids(ms)) + 1

RECURSIVE SumLen(_, _)
SumLen(ms, i) == IF i = 0 THEN 0 ELSE Len(ms[i].values) + SumLen(ms, i - 1)

TotalSamples(ms) == SumLen(ms, Len(ms))

\* One step of the stable sort: e goes behind every element whose date is
\* not later than its own (the comparator is the difference of the dates).
RECURSIVE InsertByDate(_, _)
InsertByDate(s, e) ==
  IF s = <<>> THEN <<e>>
  ELSE IF s[Len(s)].date - e.date <= 0
       THEN Append(s, e)
       ELSE Append(InsertByDate(SubSeq(s, 1, Len(s) - 1), e), s[Len(s)])

RECURSIVE SortFrom(_, _)
SortFrom(s, n) == IF n = 0 THEN <<>> ELSE InsertByDate(SortFrom(s, n - 1), s[n])

\* The samples left in the order of insertion.
NoSort(s) == s

\* Array.prototype.sort((a, b) => time(a.date) - time(b.date)): stable.
SortByDate(s) == SortFrom(s, Len(s))

\* JSON.stringify of a number: NaN has no JSON form and is written as null.
JsonNumber(v) == IF v.tag = "NaN" THEN JsNull ELSE v

\* JSON.stringify(metrics); the text is modelled by the value it denotes.
Stringify(ms) ==
  [i \in DOMAIN ms |-> [ms[i] EXCEPT !.baseValue = JsonNumber(@)]]

\* JSON.parse of a text written by Stringify.
Parse(text) == text

\* Whether localStorage.setItem stores the text (it throws otherwise).
SetItemAccepts(text) == Len(text) + TotalSamples(text) <= StorageQuota

NotComputed == [kind |-> "none"]

NoItem == [present |-> FALSE, text |-> <<>>]
NotQueued == [queued |-> FALSE, value |-> <<>>]

IsSorted(s) == \A i \in 1..(Len(s) - 1) : s[i].date <= s[i + 1].date

\* ------------------------------------------------------- handler bodies
\* The metric addMetric appends.
NewMetric(ms, newMetricName, newBaseValue) ==
  [id |-> NextId(ms), name |-> newMetricName, values |-> <<>>,
   baseValue |-> newBaseValue, lastUpdated |-> JsNull]

\* [...metric.values, {date, value}].sort(...)
NewValues(values, newValue, date) ==
  SortByDate(Append(values, [date |-> date, value |-> ParseFloat(newValue)]))

\* A map whose test of the id is inverted.
UpdatedMetricsOther(ms, selected, newValue, date, updated) ==
  [i \in DOMAIN ms |->
     IF ms[i].id # selected
     THEN [ms[i] EXCEPT !.values = NewValues(@, newValue, date),
                        !.lastUpdated = Str(updated)]
     ELSE ms[i]]

\* metrics.map(...) of addValueEntry: `date` is the first new Date() (the
\* sample's), `updated` the second (lastUpdated's).
UpdatedMetrics(ms, selected, newValue, date, updated) ==
  [i \in DOMAIN ms |->
     IF ms[i].id = selected
     THEN [ms[i] EXCEPT !.values = NewValues(@, newValue, date),
                        !.lastUpdated = Str(updated)]
     ELSE ms[i]]

\* metric.id !== id
KeepMetric(m, id) == m.id # id

\* A filter that also drops every metric behind the deleted one.
FilteredUpTo(ms, id) == SelectSeq(ms, LAMBDA m : m.id < id)

\* metrics.filter((metric) => metric.id !== id)
Filtered(ms, id) == SelectSeq(ms, LAMBDA m : KeepMetric(m, id))

\* ------------------------------------------------------------ estimator
\* JavaScript numbers of the estimator: a finite one is the exact fraction
\* num/den (den > 0); the others are Infinity, -Infinity and NaN.
Fin(n, d) == [kind |-> "finite", num |-> n, den |-> d]
PosInf == [kind |-> "Infinity", num |-> 1, den |-> 0]
NegInf == [kind |-> "Infinity", num |-> -1, den |-> 0]
NaNNumber == [kind |-> "NaN", num |-> 0, den |-> 0]

Abs(n) == IF n < 0 THEN -n ELSE n
Sign(n) == IF n < 0 THEN -1 ELSE IF n > 0 THEN 1 ELSE 0

\* a / b for two finite numbers with integer values (b is never -0).
Divide(a, b) ==
  IF b = 0
  THEN (IF a > 0 THEN PosInf ELSE IF a < 0 THEN NegInf ELSE NaNNumber)
  ELSE Fin(a * Sign(b), Abs(b))

\* totalGrowth <= 2, a comparison that is off by the boundary.
AtMostTwo(x) ==
  CASE x.kind = "finite" -> x.num <= 2 * x.den
    [] x.kind = "Infinity" -> x.num < 0
    [] OTHER -> FALSE

\* totalGrowth < 2 (false for NaN).
LessThanTwo(x) ==
  CASE x.kind = "finite" -> x.num < 2 * x.den
    [] x.kind = "Infinity" -> x.num < 0
    [] OTHER -> FALSE

RECURSIVE Pow2(_)
Pow2(k) == IF k = 0 THEN 1 ELSE 2 * Pow2(k - 1)

\* Math.log2 of a totalGrowth that is not below 2: exact for a power of two,
\* the only finite ratios of the sample values used here.
Log2(x) ==
  CASE x.kind = "finite" ->
         Fin(CHOOSE k \in 1..16 : Pow2(k) * x.den = x.num, 1)
    [] x.kind = "Infinity" -> PosInf
    [] OTHER -> NaNNumber

\* days / y for an integer number of days and y = Log2(...), and x / 30.
DivideBy(days, y) ==
  CASE y.kind = "finite" -> Fin(days, y.num)
    [] y.kind = "Infinity" -> Fin(0, 1)
    [] OTHER -> NaNNumber

Over30(x) == IF x.kind = "finite" THEN Fin(x.num, 30 * x.den) ELSE x

\* The quotients <<|num|, den>> that lie exactly between two tenths and
\* whose double is below that middle, for |num| <= 62 and den = 60 (the
\* only such middles a whole number of days over 30 * (1, 2 or 3) has):
\* 9/60 is the double 0.1499999999999999944 and prints as "0.1".
DoubleBelowMiddle == {<<9, 60>>, <<21, 60>>, <<51, 60>>, <<57, 60>>}

\* Number.prototype.toFixed(1), as the number of tenths printed.
ToFixed1(x) ==
  IF x.kind # "finite" THEN [kind |-> "NaN", tenths |-> 0]
  ELSE LET a == 10 * Abs(x.num)
           q == a \div x.den
           r == a % x.den
           up == \/ 2 * r > x.den
                 \/ 2 * r = x.den /\ <<Abs(x.num), x.den>> \notin DoubleBelowMiddle
       IN [kind |-> "fixed", tenths |-> Sign(x.num) * (IF up THEN q + 1 ELSE q)]

\* 1000 * 60 * 60 * 24 milliseconds.  Time values are counted in minutes
\* here (TLC's integers have 32 bits); every instant the estimator computes
\* from these samples is a whole number of minutes.
DayMinutes == 1440
HourMinutes == 60

\* The integer part of num/den (the time value of a Date is cut to a whole
\* number).
Truncate(num, den) == Sign(num) * (Abs(num) \div den)

\* toLocaleDateString: the calendar day of the instant ms in the zone tz
\* hours east of UTC.
LocalDay(ms, tz) == [kind |-> "date", day |-> (ms + tz * HourMinutes) \div DayMinutes]

Rate(firstEntry, lastEntry, tz) ==
  LET totalGrowth == Divide(lastEntry.value, firstEntry.value)
      timeInDays == (lastEntry.date * DayMinutes - firstEntry.date * DayMinutes) \div DayMinutes
      doublings == Log2(totalGrowth)
      daysPerDoubling == DivideBy(timeInDays, doublings)
  IN [kind |-> "rate",
      daysPerDoubling |-> ToFixed1(daysPerDoubling),
      monthsPerDoubling |-> ToFixed1(Over30(daysPerDoubling)),
      projectedNextDouble |->
        IF daysPerDoubling.kind # "finite"
        THEN [kind |-> "Invalid Date", day |-> 0]
        ELSE LocalDay(lastEntry.date * DayMinutes
                        + Truncate(daysPerDoubling.num * DayMinutes,
                                   daysPerDoubling.den), tz)]

Status(text) == [kind |-> "status", text |-> text]

calculateDoublingRate(values, tz) ==
  IF Len(values) < 2 THEN Status("Need more data")
  ELSE LET firstEntry == values[1]
           lastEntry == values[Len(values)]
       IN IF LessThanTwo(Divide(lastEntry.value, firstEntry.value))
          THEN Status("Not doubled yet")
          ELSE Rate(firstEntry, lastEntry, tz)

\* The sample sequences, sorted or not, and the time zones of the harness.
EstDays == {0, 31, 62}
EstNumbers == {-100, 0, 100, 200, 400}
EstSamples == [date : EstDays, value : EstNumbers]
EstInputs == UNION {[1..n -> EstSamples] : n \in 0..MaxEstLen}
\* New York (standard time), UTC, Tokyo.
TzOffsets == {-5, 0, 9}

\* ---------------------------------------------------------------- state
Init ==
  /\ metrics = DefaultMetrics
  /\ selectedMetric = JsNull
  /\ storage = NoItem
  /\ loaded = NotQueued
  /\ pc = "load"
  /\ lastSave = "none"
  /\ raised = "none"
  /\ everIds = Ids(DefaultMetrics)
  /\ ops = 0
  /\ estValues = <<>>
  /\ estTz = 0
  /\ estResult = NotComputed

\* The load effect (runs once, after the first render).
LoadEffect ==
  /\ pc = "load"
  /\ loaded' = IF storage.present
               THEN [queued |-> TRUE, value |-> Parse(storage.text)]
               ELSE NotQueued
  /\ pc' = "save"
  /\ UNCHANGED << metrics, selectedMetric, storage, lastSave, raised,
                  everIds, ops, estVars >>

\* The save effect (runs after every render in which metrics changed);
\* a setItem that throws is caught and logged.
SaveEffect ==
  /\ pc = "save"
  /\ \/ /\ SetItemAccepts(Stringify(metrics))
        /\ storage' = [present |-> TRUE, text |-> Stringify(metrics)]
        /\ lastSave' = "ok"
     \/ /\ ~SetItemAccepts(Stringify(metrics))
        /\ lastSave' = "failed"
        /\ UNCHANGED storage
  /\ pc' = IF loaded.queued THEN "render" ELSE "idle"
  /\ UNCHANGED << metrics, selectedMetric, loaded, raised, everIds, ops,
                  estVars >>

\* The re-render that applies the load effect's setMetrics.
Rerender ==
  /\ pc = "render"
  /\ metrics' = loaded.value
  /\ loaded' = NotQueued
  /\ pc' = "save"
  /\ everIds' = everIds \cup Ids(loaded.value)
  /\ UNCHANGED << selectedMetric, storage, lastSave, raised, ops, estVars >>

\* onChange of the metric <select>: parseInt of the chosen option's value,
\* which is "" for the placeholder option and a rendered metric's id for
\* the others.
SelectMetric(v) ==
  /\ pc = "idle"
  /\ ops < MaxOps
  /\ v \in {JsNaN} \cup {Num(i) : i \in Ids(metrics)}
  /\ selectedMetric' = v
  /\ ops' = ops + 1
  /\ UNCHANGED << metrics, storage, loaded, pc, lastSave, raised, everIds,
                  estVars >>

AddMetric(newMetricName, newBaseValue) ==
  /\ pc = "idle"
  /\ IF Trim(newMetricName) = ""
     THEN UNCHANGED vars
     ELSE /\ ops < MaxOps
          /\ metrics' = Append(metrics,
                               NewMetric(metrics, newMetricName, newBaseValue))
          /\ everIds' = everIds \cup {NextId(metrics)}
          /\ pc' = "save"
          /\ raised' = "none"
          /\ ops' = ops + 1
          /\ UNCHANGED << selectedMetric, storage, loaded, lastSave, estVars >>

\* `date` and `updated` are the two new Date() reads of the handler, the
\* second not before the first.
AddValueEntry(newValue, date, updated) ==
  /\ pc = "idle"
  /\ updated \in {date, date + 1}
  /\ IF Falsy(selectedMetric) \/ newValue = ""
     THEN UNCHANGED vars
     ELSE /\ ops < MaxOps
          /\ metrics' = UpdatedMetrics(metrics, selectedMetric.val, newValue,
                                       date, updated)
          /\ pc' = "save"
          /\ raised' = "none"
          /\ ops' = ops + 1
          /\ UNCHANGED << selectedMetric, storage, loaded, lastSave, everIds,
                          estVars >>

DeleteMetric(id) ==
  /\ pc = "idle"
  /\ ops < MaxOps
  /\ metrics' = Filtered(metrics, id)
  /\ pc' = "save"
  /\ raised' = "none"
  /\ ops' = ops + 1
  /\ UNCHANGED << selectedMetric, storage, loaded, lastSave, everIds,
                  estVars >>

\* The page is reloaded: the component is constructed again; localStorage
\* stays.
Reload ==
  /\ pc = "idle"
  /\ ops < MaxOps
  /\ metrics' = DefaultMetrics
  /\ selectedMetric' = JsNull
  /\ loaded' = NotQueued
  /\ pc' = "load"
  /\ lastSave' = "none"
  /\ raised' = "none"
  /\ ops' = ops + 1
  /\ UNCHANGED << storage, everIds, estVars >>

Next ==
  \/ LoadEffect
  \/ SaveEffect
  \/ Rerender
  \/ \E v \in {JsNaN} \cup {Num(i) : i \in Ids(metrics)} : SelectMetric(v)
  \/ \E n \in TypedNames, b \in TypedBaseValues : AddMetric(n, b)
  \/ \E nv \in TypedValues, d \in Days, u \in Days : AddValueEntry(nv, d, u)
  \/ \E id \in 1..NextId(metrics) : DeleteMetric(id)
  \/ Reload

Spec == Init /\ [][Next]_vars

\* -------------------------------------------------- estimator harness
\* calculateDoublingRate is a pure function: the harness hands it every
\* sample sequence of EstInputs in every zone of TzOffsets.
EstInit ==
  /\ metrics = DefaultMetrics
  /\ selectedMetric = JsNull
  /\ storage = NoItem
  /\ loaded = NotQueued
  /\ pc = "estimate"
  /\ lastSave = "none"
  /\ raised = "none"
  /\ everIds = Ids(DefaultMetrics)
  /\ ops = 0
  /\ estValues \in EstInputs
  /\ estTz \in TzOffsets
  /\ estResult = NotComputed

Calculate ==
  /\ pc = "estimate"
  /\ estResult = NotComputed
  /\ estResult' = calculateDoublingRate(estValues, estTz)
  /\ UNCHANGED << storeVars, estValues, estTz >>

EstNext == Calculate

EstSpec == EstInit /\ [][EstNext]_vars


\* ---------------------------------------------------------------- claims
Last(s) == s[Len(s)]

\* An AddValueEntry step that passes the handler's guard.
Records(newValue, date, updated) ==
  /\ AddValueEntry(newValue, date, updated)
  /\ ~Falsy(selectedMetric)
  /\ newValue # ""

\* C1: after every addValueEntry, whatever the order of the dates, the
\* samples of every metric are in non-decreasing order of date.
C1_SamplesSorted == \A i \in DOMAIN metrics : IsSorted(metrics[i].values)

\* C1's case: a metric whose latest sample was recorded on an earlier day
\* than the sample that is last in its sequence.
C1_Witness ==
  \E i \in DOMAIN metrics :
    /\ Len(metrics[i].values) >= 2
    /\ metrics[i].lastUpdated.val < Last(metrics[i].values).date
    /\ metrics[i].values[1].date < Last(metrics[i].values).date

\* C2, as claimed: a metric created with a non-empty name gets an id greater
\* than every id a metric of the store has ever had.
C2_NeverReused ==
  [][pc = "idle" =>
       \A n \in TypedNames \ {"", " "}, b \in TypedBaseValues :
         AddMetric(n, b) => \A i \in everIds : Last(metrics').id > i]_vars

\* C2, amended: a metric created with a non-empty name gets an id greater
\* than every id in the store at that moment, and no two metrics of the
\* store have the same id.
C2_AboveCurrentIds ==
  /\ [](\A i, j \in DOMAIN metrics : metrics[i].id = metrics[j].id => i = j)
  /\ [][pc = "idle" =>
          \A n \in TypedNames \ {"", " "}, b \in TypedBaseValues :
            AddMetric(n, b)
              => \A i \in Ids(metrics) : Last(metrics').id > i]_vars

\* C2's case: a created metric holds an id a default metric had before it.
C2_Witness ==
  \E i \in DOMAIN metrics :
    /\ metrics[i].name = "A"
    /\ metrics[i].id \in Ids(DefaultMetrics)

\* C3: lastUpdated is null while a metric has no samples, and after
\* addValueEntry it is the date stored in the sample just appended.
C3_LastUpdatedIsSampleDate ==
  /\ [](\A i \in DOMAIN metrics :
          metrics[i].values = <<>> => metrics[i].lastUpdated = JsNull)
  /\ [][\A nv \in TypedValues, d \in Days, u \in Days :
          Records(nv, d, u)
            => \A i \in DOMAIN metrics :
                 metrics[i].id = selectedMetric.val
                   => /\ metrics'[i].lastUpdated = Str(d)
                      /\ \E k \in DOMAIN metrics'[i].values :
                           metrics'[i].values[k].date = d]_vars

\* last.value / first.value < 2, by the signs of the two values.
RatioBelowTwo(firstValue, lastValue) ==
  \/ firstValue > 0 /\ lastValue < 2 * firstValue
  \/ firstValue < 0 /\ lastValue > 2 * firstValue
  \/ firstValue = 0 /\ lastValue < 0

\* C4: the estimator answers "Need more data" exactly for fewer than two
\* samples, otherwise "Not doubled yet" exactly when last.value / first.value
\* is below 2, otherwise a rate; the answer depends on the first and the last
\* element of the sequence as given only.
C4_Statuses ==
  estResult # NotComputed =>
    /\ (estResult = Status("Need more data")) <=> (Len(estValues) < 2)
    /\ Len(estValues) >= 2 =>
         /\ (estResult = Status("Not doubled yet"))
              <=> RatioBelowTwo(estValues[1].value, Last(estValues).value)
         /\ ~RatioBelowTwo(estValues[1].value, Last(estValues).value)
              => estResult.kind = "rate"
         /\ estResult
              = calculateDoublingRate(<<estValues[1], Last(estValues)>>, estTz)

\* C4's case: a rate computed from three samples that are not in date order.
C4_Witness ==
  /\ estResult # NotComputed
  /\ estResult.kind = "rate"
  /\ Len(estValues) = 3
  /\ estValues[1].date > estValues[2].date
  /\ estValues[2].date < estValues[3].date
  /\ estValues[1].date < estValues[3].date

\* The nearest whole number of tenths to 10 * num / den, for den > 0 (no
\* quotient of the harness lies exactly between two tenths).
NearestTenths(num, den) == (20 * num + den) \div (2 * den)

\* C5: for a growth of at least 2, daysPerDoubling is elapsedDays /
\* log2(growth), monthsPerDoubling is that over 30 (both to one decimal), and
\* the projected date is last.date plus daysPerDoubling days; so 100 on
\* 2024-01-01 and 200 on 2024-02-01 give 31.0, 1.0 and 2024-03-03 (day 62).
C5_Rate ==
  (estResult # NotComputed /\ estResult.kind = "rate"
     /\ estValues[1].value > 0) =>
    LET firstEntry == estValues[1]
        lastEntry == Last(estValues)
        elapsedDays == lastEntry.date - firstEntry.date
        doublings == CHOOSE k \in 1..16 :
                       Pow2(k) * firstEntry.value = lastEntry.value
    IN /\ estResult.daysPerDoubling.tenths
            = NearestTenths(elapsedDays, doublings)
       /\ estResult.monthsPerDoubling.tenths
            = NearestTenths(elapsedDays, 30 * doublings)
       /\ estResult.projectedNextDouble.day
            = (lastEntry.date * doublings + elapsedDays) \div doublings
       /\ (estValues = << [date |-> 0, value |-> 100],
                          [date |-> 31, value |-> 200] >>)
            => /\ estResult.daysPerDoubling.tenths = 310
               /\ estResult.monthsPerDoubling.tenths = 10
               /\ estResult.projectedNextDouble.day = 62

\* The metrics without the one at position p.
Without(ms, p) == SubSeq(ms, 1, p - 1) \o SubSeq(ms, p + 1, Len(ms))

\* C6: deleteMetric(id) removes the metric with that id and leaves the
\* others as they are and in their order; with no such metric it changes
\* nothing; it raises no error.
C6_DeleteExactlyOne ==
  [][pc = "idle" =>
       \A id \in 1..NextId(metrics) :
         DeleteMetric(id)
           => /\ raised' = "none"
              /\ id \notin Ids(metrics) => metrics' = metrics
              /\ \A p \in DOMAIN metrics :
                   metrics[p].id = id => metrics' = Without(metrics, p)]_vars

\* C6's case: the second metric has been deleted and saved, and a second
\* deleteMetric, of an id no metric has, has left the store as it was.
C6_Witness ==
  /\ ops = 2
  /\ pc = "save"
  /\ selectedMetric = JsNull
  /\ metrics = Without(DefaultMetrics, 2)
  /\ storage.present
  /\ storage.text = Stringify(metrics)

\* The selection is an id that no metric of the store has.
StaleSelection ==
  /\ ~Falsy(selectedMetric)
  /\ selectedMetric.val \notin Ids(metrics)

\* C7, as claimed: addValueEntry for an id that no metric has fails with
\* NotFound, raised to the caller, and changes no metric.
C7_NotFoundRaised ==
  [][StaleSelection =>
       \A nv \in TypedValues, d \in Days, u \in Days :
         Records(nv, d, u) => /\ raised' = "NotFound"
                              /\ metrics' = metrics]_vars

\* C7, amended: addValueEntry for an id that no metric has raises nothing:
\* it is ignored, and changes no metric.
C7_SilentlyIgnored ==
  [][StaleSelection =>
       \A nv \in TypedValues, d \in Days, u \in Days :
         Records(nv, d, u) => /\ raised' = "none"
                              /\ metrics' = metrics]_vars

\* C7's case: metric 3 was selected, then deleted and the deletion saved,
\* and a value was then recorded for it.
C7_Witness ==
  /\ ops = 3
  /\ pc = "save"
  /\ selectedMetric = Num(3)
  /\ metrics = Without(DefaultMetrics, 3)
  /\ storage.present
  /\ storage.text = Stringify(metrics)

\* C8: once the save effect that follows an operation has run, the
\* persisted text parses to the metrics in memory, with the same ids, names,
\* baseValues, lastUpdated and samples, unless the write failed; a failed
\* write raises nothing.
C8_RoundTrip ==
  /\ (pc = "idle" /\ lastSave = "ok") =>
       /\ storage.present
       /\ Parse(storage.text) = metrics
  /\ (pc = "idle" /\ lastSave = "failed") => raised = "none"

\* C9: addMetric with an empty or blank name changes nothing and uses up no
\* id; with another name it appends one metric, with no samples and a null
\* lastUpdated, behind the others.
C9_AddMetric ==
  [][pc = "idle" =>
       \A n \in TypedNames, b \in TypedBaseValues :
         AddMetric(n, b)
           => IF n \in {"", " "}
              THEN /\ metrics' = metrics
                   /\ NextId(metrics') = NextId(metrics)
              ELSE /\ Len(metrics') = Len(metrics) + 1
                   /\ SubSeq(metrics', 1, Len(metrics)) = metrics
                   /\ Last(metrics').name = n
                   /\ Last(metrics').baseValue = b
                   /\ Last(metrics').values = <<>>
                   /\ Last(metrics').lastUpdated = JsNull]_vars

\* C9's case: a metric named "A" has been appended behind the defaults.
C9_Witness ==
  /\ Len(metrics) = 4
  /\ SubSeq(metrics, 1, 3) = DefaultMetrics
  /\ Last(metrics).name = "A"
  /\ Last(metrics).values = <<>>

\* C10: from the load effect's read until the re-render that applies it,
\* localStorage still holds the persisted state that was read.
C10_PersistedKept ==
  loaded.queued => (storage.present /\ Parse(storage.text) = loaded.value)

=============================================================================
